---- MODULE Spec2Model ----
(***************************************************************************)
(* PyAscent climb detection: ClimbDetector.detect_climbs and               *)
(* ClimbDetector._categorize_climb (src/climb_detector.py).                *)
(*                                                                         *)
(* Numbers.  The code computes in floating point; the model computes the   *)
(* same expressions in exact rational arithmetic.  A rational is a record  *)
(* [n, d] with d > 0 in lowest terms, so equal values are equal records.   *)
(* Distances are held in metres: the model's distances[k] is the code's    *)
(* distances[k] (kilometres) times 1000, so the code's                     *)
(* "distance_diff * 1000" is the model's distance_diff, and min_distance   *)
(* 0.3 km is 300.  Elevations are metres, gradients are percent.           *)
(*                                                                         *)
(* Indices.  Records and locals keep Python's 0-based indices; At(s, k)    *)
(* reads the Python element s[k] of the 1-based TLA+ sequence s.           *)
(***************************************************************************)
EXTENDS Integers, Sequences, FiniteSets, TLC

VARIABLES
    distances,              \* self.distances (metres)
    elevations,             \* self.elevations (metres)
    min_gradient,           \* self.min_gradient (percent)
    min_elevation_gain,     \* self.min_elevation_gain (metres)
    min_distance,           \* self.min_distance (metres)
    pc,                     \* "new", "scan", "done", "error" (detector), "cat" (classifier runs)
    i,                      \* loop index of detect_climbs
    in_climb,               \* local in_climb
    climb_start_idx,        \* local climb_start_idx
    climb_start_elevation,  \* local climb_start_elevation (rational)
    smoothed_elevations,    \* local smoothed_elevations (sequence of rationals)
    climbs,                 \* local climbs, the list returned
    calls,                  \* history: number of detect_climbs calls made on the instance
    first_result,           \* history: what the first completed call returned
    category_args,          \* arguments of the last direct _categorize_climb call
    category_result,        \* its return value
    dropped,                \* history: the climbs closed in the loop and not emitted
    route_summary           \* what GPXParser.get_route_data returned

vars == <<distances, elevations, min_gradient, min_elevation_gain, min_distance,
          pc, i, in_climb, climb_start_idx, climb_start_elevation,
          smoothed_elevations, climbs, calls, first_result, category_args,
          category_result, dropped, route_summary>>

fields == <<distances, elevations, min_gradient, min_elevation_gain, min_distance>>

----------------------------------------------------------------------------
(* Bounds of the model *)

\* longest route of the exhaustive family
MaxLen == 4
\* longest constant-elevation route
MaxFlatLen == 50
\* calls of detect_climbs made on one instance
MaxCalls == 2

----------------------------------------------------------------------------
(* Exact rational arithmetic standing for the code's float arithmetic *)

Abs(x) == IF x < 0 THEN -x ELSE x

Min(a, b) == IF a < b THEN a ELSE b

RECURSIVE Gcd(_, _)
Gcd(a, b) == IF b = 0 THEN a ELSE Gcd(b, a % b)

\* the rational n/d (d > 0) in lowest terms
Rat(n, d) ==
    LET g == Gcd(Abs(n), d)
    IN  [n |-> n \div g, d |-> d \div g]

RInt(k) == [n |-> k, d |-> 1]
RSub(a, b) == Rat(a.n * b.d - b.n * a.d, a.d * b.d)
RMul(a, b) == Rat(a.n * b.n, a.d * b.d)
RLt(a, b) == a.n * b.d < b.n * a.d
RGt(a, b) == RLt(b, a)
RGe(a, b) == ~RLt(a, b)

\* Python s[k], 0 <= k < len(s)
At(s, k) == s[k + 1]

\* Python s[-1]
Last(s) == s[Len(s)]

\* sum of f[k] for k in lo..hi
RECURSIVE SumRange(_, _, _)
SumRange(s, lo, hi) == IF lo > hi THEN 0 ELSE At(s, lo) + SumRange(s, lo + 1, hi)

----------------------------------------------------------------------------
(* Elevation smoothing, detect_climbs lines 42-51 *)

\* window_size = min(5, len(self.elevations) // 10)
WindowSize(elev) == Min(5, Len(elev) \div 10)

Max(a, b) == IF a > b THEN a ELSE b

\* np.convolve(elev, np.ones(w)/w, mode='same')[k]: the w-term sum of the full
\* convolution at offset (w-1)//2, the sequence taken as 0 outside 0..N-1, so the
\* window is k - w//2 .. k + (w-1)//2 cut to the sequence
ConvolveSame(elev, w, k) ==
    Rat(SumRange(elev, Max(0, k - (w \div 2)), Min(Len(elev) - 1, k + ((w - 1) \div 2))), w)

Smooth(elev) ==
    LET w == WindowSize(elev)
    IN  IF w > 1
        THEN [k \in 1..Len(elev) |-> ConvolveSame(elev, w, k - 1)]
        ELSE [k \in 1..Len(elev) |-> RInt(elev[k])]

----------------------------------------------------------------------------
(* Climb classifier, _categorize_climb lines 113-138 *)

\* mutant: the elevation-gain alternatives of lines 127-133 left out
categorize_climb_score_only(elevation_gain, avg_gradient, min_gain) ==
    LET difficulty_score == RMul(elevation_gain, avg_gradient)
    IN  IF RGt(difficulty_score, RInt(8000)) THEN "HC"
        ELSE IF RGt(difficulty_score, RInt(5000)) THEN "1"
        ELSE IF RGt(difficulty_score, RInt(3000)) THEN "2"
        ELSE IF RGt(difficulty_score, RInt(1500)) THEN "3"
        ELSE IF RGe(elevation_gain, RInt(min_gain)) THEN "4"
        ELSE "Uncategorized"

categorize_climb(elevation_gain, avg_gradient, min_gain) ==
    LET difficulty_score == RMul(elevation_gain, avg_gradient)
    IN  IF RGt(difficulty_score, RInt(8000)) \/ RGt(elevation_gain, RInt(1200)) THEN "HC"
        ELSE IF RGt(difficulty_score, RInt(5000)) \/ RGt(elevation_gain, RInt(800)) THEN "1"
        ELSE IF RGt(difficulty_score, RInt(3000)) \/ RGt(elevation_gain, RInt(500)) THEN "2"
        ELSE IF RGt(difficulty_score, RInt(1500)) \/ RGt(elevation_gain, RInt(300)) THEN "3"
        ELSE IF RGe(elevation_gain, RInt(min_gain)) THEN "4"
        ELSE "Uncategorized"

----------------------------------------------------------------------------
(* Closing evaluation of the open climb, lines 68-86 and 92-109 *)

\* mutant: the gradient left as a fraction, not a percentage
AvgGradientFraction(elevation_gain, climb_distance) ==
    IF climb_distance > 0
    THEN Rat(elevation_gain.n, elevation_gain.d * climb_distance)
    ELSE RInt(0)

\* avg_gradient = (elevation_gain / (climb_distance * 1000)) * 100 if climb_distance > 0 else 0
AvgGradient(elevation_gain, climb_distance) ==
    IF climb_distance > 0
    THEN Rat(elevation_gain.n * 100, elevation_gain.d * climb_distance)
    ELSE RInt(0)

\* the dictionary appended at lines 75-86 / 98-109
ClimbRecord(end_idx, end_distance, end_elevation, elevation_gain) ==
    LET climb_distance == end_distance - At(distances, climb_start_idx)
        avg_gradient == AvgGradient(elevation_gain, climb_distance)
    IN  [start_idx       |-> climb_start_idx,
         end_idx         |-> end_idx,
         start_distance  |-> At(distances, climb_start_idx),
         end_distance    |-> end_distance,
         start_elevation |-> At(elevations, climb_start_idx),
         end_elevation   |-> end_elevation,
         elevation_gain  |-> elevation_gain,
         distance        |-> climb_distance,
         avg_gradient    |-> avg_gradient,
         category        |-> categorize_climb(elevation_gain, avg_gradient, min_elevation_gain)]

\* mutant: the distance test of lines 74 / 97 left out
QualifiesGainOnly(elevation_gain, climb_distance) ==
    RGe(elevation_gain, RInt(min_elevation_gain))

\* mutant: the gain test of lines 70 / 93 left out
QualifiesDistanceOnly(elevation_gain, climb_distance) ==
    climb_distance >= min_distance

\* the two nested tests, lines 70 and 74 / 93 and 97
Qualifies(elevation_gain, climb_distance) ==
    /\ RGe(elevation_gain, RInt(min_elevation_gain))
    /\ climb_distance >= min_distance

\* climbs after the closing evaluation with the given end point
CloseClimb(end_idx, end_distance, end_elevation, closing_smoothed) ==
    LET elevation_gain == RSub(closing_smoothed, climb_start_elevation)
    IN  IF Qualifies(elevation_gain, end_distance - At(distances, climb_start_idx))
        THEN Append(climbs, ClimbRecord(end_idx, end_distance, end_elevation, elevation_gain))
        ELSE climbs

----------------------------------------------------------------------------
(* detect_climbs, lines 30-111 *)

\* mutant: the list of climbs kept from call to call, not a fresh local
DetectClimbsEnterKeepsClimbs ==
    /\ pc \in {"new", "done", "error"}
    /\ calls < MaxCalls
    /\ calls' = calls + 1
    /\ in_climb' = FALSE
    /\ climb_start_idx' = 0
    /\ climb_start_elevation' = RInt(0)
    /\ smoothed_elevations' = Smooth(elevations)
    /\ i' = 1
    /\ pc' = "scan"
    /\ dropped' = <<>>
    /\ UNCHANGED <<fields, climbs, first_result, category_args, category_result,
                   route_summary>>

\* lines 37-51: the locals are initialised and the elevations smoothed
DetectClimbsEnter ==
    /\ pc \in {"new", "done", "error"}
    /\ calls < MaxCalls
    /\ calls' = calls + 1
    /\ climbs' = <<>>
    /\ in_climb' = FALSE
    /\ climb_start_idx' = 0
    /\ climb_start_elevation' = RInt(0)
    /\ smoothed_elevations' = Smooth(elevations)
    /\ i' = 1
    /\ pc' = "scan"
    /\ dropped' = <<>>
    /\ UNCHANGED <<fields, first_result, category_args, category_result, route_summary>>

\* the gradient of step k, line 58 (distance_diff > 0)
Gradient(elevation_diff, distance_diff) ==
    Rat(elevation_diff.n * 100, elevation_diff.d * distance_diff)

\* mutant: the test of in_climb left out, a steep step restarts an open climb
StartsClimbWhileClimbing(gradient) == RGt(gradient, RInt(min_gradient))

\* mutant: a gradient equal to min_gradient starts a climb
StartsClimbAtThreshold(gradient) == ~in_climb /\ RGe(gradient, RInt(min_gradient))

\* lines 60-64: start of a climb
StartsClimb(gradient) == ~in_climb /\ RGt(gradient, RInt(min_gradient))

\* mutant: a flat step ends the climb too
EndsClimbOnFlat(gradient) == in_climb /\ ~RGt(gradient, RInt(0))

\* line 66: end of climb (descent starts)
EndsClimb(gradient) == in_climb /\ RLt(gradient, RInt(0))

\* mutant: the climb starts at the earlier sample of the step
BeginClimbAtPrevious ==
    /\ in_climb' = TRUE
    /\ climb_start_idx' = i - 1
    /\ climb_start_elevation' = At(smoothed_elevations, i - 1)
    /\ UNCHANGED <<climbs, dropped>>

\* lines 61-64: the climb starts at the later sample of the step
BeginClimb ==
    /\ in_climb' = TRUE
    /\ climb_start_idx' = i
    /\ climb_start_elevation' = At(smoothed_elevations, i)
    /\ UNCHANGED <<climbs, dropped>>

\* mutant: line 88 left out, the climb stays open after it is closed
EndClimbStaysOpen ==
    /\ climbs' = CloseClimb(i - 1, At(distances, i - 1), At(elevations, i - 1),
                            At(smoothed_elevations, i - 1))
    /\ dropped' = IF climbs' = climbs
                  THEN Append(dropped, [start_idx |-> climb_start_idx, close_step |-> i])
                  ELSE dropped
    /\ UNCHANGED <<in_climb, climb_start_idx, climb_start_elevation>>

\* lines 67-88: the climb is closed at sample i-1, emitted if it qualifies, and
\* the climbing state is left either way
EndClimb ==
    /\ climbs' = CloseClimb(i - 1, At(distances, i - 1), At(elevations, i - 1),
                            At(smoothed_elevations, i - 1))
    /\ dropped' = IF climbs' = climbs
                  THEN Append(dropped, [start_idx |-> climb_start_idx, close_step |-> i])
                  ELSE dropped
    /\ in_climb' = FALSE
    /\ UNCHANGED <<climb_start_idx, climb_start_elevation>>

\* mutant: a step that is not counted ends the open climb
SkipStepLeavesClimb ==
    /\ in_climb' = FALSE
    /\ UNCHANGED <<climb_start_idx, climb_start_elevation, climbs, dropped>>

\* line 57: a step with distance_diff <= 0 runs no statement of the loop body
SkipStep == UNCHANGED <<in_climb, climb_start_idx, climb_start_elevation, climbs, dropped>>

\* lines 53-88: one iteration of the for loop; smoothed_elevations[i] raises
\* IndexError when the elevation sequence is shorter than the distance sequence
LoopStep ==
    /\ pc = "scan"
    /\ i < Len(distances)
    /\ IF i >= Len(smoothed_elevations)
       THEN /\ pc' = "error"
            /\ UNCHANGED <<i, in_climb, climb_start_idx, climb_start_elevation, climbs,
                           dropped>>
       ELSE LET elevation_diff == RSub(At(smoothed_elevations, i), At(smoothed_elevations, i - 1))
                distance_diff == At(distances, i) - At(distances, i - 1)
            IN  /\ pc' = "scan"
                /\ i' = i + 1
                /\ IF distance_diff > 0
                   THEN LET gradient == Gradient(elevation_diff, distance_diff)
                        IN  IF StartsClimb(gradient) THEN BeginClimb
                            ELSE IF EndsClimb(gradient) THEN EndClimb
                            ELSE UNCHANGED <<in_climb, climb_start_idx, climb_start_elevation,
                                             climbs, dropped>>
                   ELSE SkipStep
    /\ UNCHANGED <<fields, smoothed_elevations, calls, first_result, category_args,
                   category_result, route_summary>>

\* mutant: lines 91-109 left out, a climb still open at the end is lost
LoopExitDropsOpenClimb ==
    /\ pc = "scan"
    /\ i >= Len(distances)
    /\ pc' = "done"
    /\ first_result' = IF first_result = <<"none">> THEN <<"returned", climbs>> ELSE first_result
    /\ UNCHANGED <<fields, i, in_climb, climb_start_idx, climb_start_elevation,
                   smoothed_elevations, climbs, calls, category_args, category_result,
                   dropped, route_summary>>

\* lines 90-111: the loop is over; the route may end on a climb; return climbs
LoopExit ==
    /\ pc = "scan"
    /\ i >= Len(distances)
    /\ climbs' = IF in_climb
                 THEN CloseClimb(Len(distances) - 1, Last(distances), Last(elevations),
                                 Last(smoothed_elevations))
                 ELSE climbs
    /\ pc' = "done"
    /\ first_result' = IF first_result = <<"none">> THEN <<"returned", climbs'>> ELSE first_result
    /\ UNCHANGED <<fields, i, in_climb, climb_start_idx, climb_start_elevation,
                   smoothed_elevations, calls, category_args, category_result,
                   dropped, route_summary>>

----------------------------------------------------------------------------
(* The detector instances of the model: ClimbDetector.__init__, lines 13-28, *)
(* stores its arguments unchecked, so any pair of sequences is an instance.  *)

\* steps between consecutive cumulative distances (metres); 0 is a repeated
\* fix, -300 a cumulative distance that goes backward
DistSteps == {-300, 0, 300, 1000}

\* elevations of the exhaustive family (metres)
ElevSet == {100, 120, 150}

\* cumulative distances 0, st[1], st[1]+st[2], ...
Cumulative(st) == [k \in 1..(Len(st) + 1) |-> SumRange(st, 0, k - 2)]

DistSeqs(n) == IF n = 0 THEN {<<>>} ELSE {Cumulative(st) : st \in [1..(n - 1) -> DistSteps]}

ElevSeqs(n) == [1..n -> ElevSet]

Route(d, e) == [distances |-> d, elevations |-> e]

\* constant elevation c, n points, equal spacing
FlatRoute(n, c, step) == Route([k \in 1..n |-> (k - 1) * step], [k \in 1..n |-> c])

FlatRoutes == {FlatRoute(n, 200, step) : n \in 2..MaxFlatLen, step \in {10, 1000}}

\* Scenario A of the specification
ScenarioA == Route(<<0, 1000, 2000, 3000, 4000>>, <<100, 130, 170, 220, 215>>)

\* Scenario B: 2 km at a constant 5 %, gaining 100 m, in k equal segments
ScenarioB(k) ==
    Route([j \in 1..(k + 1) |-> ((j - 1) * 2000) \div k],
          [j \in 1..(k + 1) |-> 400 + ((j - 1) * 100) \div k])

ScenarioBSegments == {1, 2, 4, 5, 10}

\* Scenario D: two climbs separated by a descent
ScenarioD == Route(<<0, 1000, 2000, 3000, 4000, 5000, 6000>>,
                   <<100, 150, 200, 190, 240, 300, 290>>)

\* a steady 5 % climb of 21 points, long enough for the smoothing to act
SmoothedClimb == ScenarioB(20)

\* a climb with a flat step inside it
ClimbWithFlat == Route(<<0, 1000, 2000, 3000, 4000, 5000>>,
                       <<100, 150, 200, 200, 250, 240>>)

\* a climb that opens and is closed at once by a descent, then a real climb
DroppedThenClimb == Route(<<0, 1000, 2000, 3000, 4000, 5000>>,
                          <<100, 150, 140, 200, 260, 250>>)

\* the routes added to the exhaustive family
LongRoutes == FlatRoutes \cup {ScenarioA, ScenarioD, SmoothedClimb, ClimbWithFlat,
                               DroppedThenClimb}
                  \cup {ScenarioB(k) : k \in ScenarioBSegments}

\* (min_gradient, min_elevation_gain, min_distance): the defaults of lines 13
\* (3.0 %, 20.0 m, 0.3 km) and the lowest thresholds
Defaults == [min_gradient |-> 3, min_elevation_gain |-> 20, min_distance |-> 300]

Configs == {Defaults, [min_gradient |-> 3, min_elevation_gain |-> 0, min_distance |-> 0]}

\* every route of up to MaxLen points, the two sequences of any lengths, and
\* the long routes
Init ==
    /\ \/ \E m \in 0..MaxLen, n \in 0..MaxLen :
             /\ distances \in DistSeqs(m)
             /\ elevations \in ElevSeqs(n)
       \/ \E r \in LongRoutes :
             /\ distances = r.distances
             /\ elevations = r.elevations
    /\ \E c \in Configs :
          /\ min_gradient = c.min_gradient
          /\ min_elevation_gain = c.min_elevation_gain
          /\ min_distance = c.min_distance
    /\ pc = "new"
    /\ i = 0
    /\ in_climb = FALSE
    /\ climb_start_idx = 0
    /\ climb_start_elevation = RInt(0)
    /\ smoothed_elevations = <<>>
    /\ climbs = <<>>
    /\ calls = 0
    /\ first_result = <<"none">>
    /\ category_args = <<>>
    /\ category_result = "none"
    /\ dropped = <<>>
    /\ route_summary = <<>>

Next == DetectClimbsEnter \/ LoopStep \/ LoopExit

Spec == Init /\ [][Next]_vars

----------------------------------------------------------------------------
(* Direct calls of the classifier on an instance *)

CatGains == {-100, 0, 10, 19, 20, 21, 100, 300, 301, 500, 501, 800, 801, 1200, 1201, 1300}

CatGradients == {-100, 0, 1, 3, 5, 6, 7, 10, 15, 20}

CatMinGains == {10, 20, 100}

InitCat ==
    /\ distances = <<>>
    /\ elevations = <<>>
    /\ min_gradient = Defaults.min_gradient
    /\ min_elevation_gain \in CatMinGains
    /\ min_distance = Defaults.min_distance
    /\ pc = "cat"
    /\ i = 0
    /\ in_climb = FALSE
    /\ climb_start_idx = 0
    /\ climb_start_elevation = RInt(0)
    /\ smoothed_elevations = <<>>
    /\ climbs = <<>>
    /\ calls = 0
    /\ first_result = <<"none">>
    /\ category_args = <<>>
    /\ category_result = "none"
    /\ dropped = <<>>
    /\ route_summary = <<>>

\* self._categorize_climb(elevation_gain, avg_gradient)
CategorizeCall ==
    /\ pc = "cat"
    /\ \E g \in CatGains, a \in CatGradients :
          /\ category_args' = <<RInt(g), RInt(a)>>
          /\ category_result' = categorize_climb(RInt(g), RInt(a), min_elevation_gain)
    /\ UNCHANGED <<fields, pc, i, in_climb, climb_start_idx, climb_start_elevation,
                   smoothed_elevations, climbs, calls, first_result, dropped,
                   route_summary>>

NextCat == CategorizeCall

SpecCat == InitCat /\ [][NextCat]_vars

----------------------------------------------------------------------------
(* Route summary, GPXParser.get_route_data and _calculate_elevation_gain,   *)
(* src/gpx_parser.py lines 56-81, over the parser's distances / elevations  *)

\* mutant: every difference added, the descents too
RECURSIVE calculate_elevation_gain_net(_, _, _)
calculate_elevation_gain_net(elev, k, gain) ==
    IF k >= Len(elev) THEN gain
    ELSE calculate_elevation_gain_net(elev, k + 1, gain + (At(elev, k) - At(elev, k - 1)))

\* lines 76-81: the loop from index k on, gain being the sum so far
RECURSIVE calculate_elevation_gain(_, _, _)
calculate_elevation_gain(elev, k, gain) ==
    IF k >= Len(elev) THEN gain
    ELSE LET diff == At(elev, k) - At(elev, k - 1)
         IN  calculate_elevation_gain(elev, k + 1, IF diff > 0 THEN gain + diff ELSE gain)

\* np.max / np.min of a non-empty sequence
RECURSIVE NpMax(_, _)
NpMax(s, n) == IF n = 1 THEN s[1] ELSE Max(NpMax(s, n - 1), s[n])

RECURSIVE NpMin(_, _)
NpMin(s, n) == IF n = 1 THEN s[1] ELSE Min(NpMin(s, n - 1), s[n])

\* lines 63-72
get_route_data ==
    [distances      |-> distances,
     elevations     |-> elevations,
     total_distance |-> IF Len(distances) > 0 THEN Last(distances) ELSE 0,
     elevation_gain |-> calculate_elevation_gain(elevations, 1, 0),
     max_elevation  |-> IF Len(elevations) > 0 THEN NpMax(elevations, Len(elevations)) ELSE 0,
     min_elevation  |-> IF Len(elevations) > 0 THEN NpMin(elevations, Len(elevations)) ELSE 0]

\* the parser accumulates distances that are never negative (_extract_data,
\* lines 42-47) and one elevation per point
ParserDistSteps == {0, 300, 1000}

ParserDistSeqs(n) ==
    IF n = 0 THEN {<<>>} ELSE {Cumulative(st) : st \in [1..(n - 1) -> ParserDistSteps]}

InitSummary ==
    /\ \E n \in 0..MaxLen :
          /\ distances \in ParserDistSeqs(n)
          /\ elevations \in ElevSeqs(n)
    /\ min_gradient = Defaults.min_gradient
    /\ min_elevation_gain = Defaults.min_elevation_gain
    /\ min_distance = Defaults.min_distance
    /\ pc = "parsed"
    /\ i = 0
    /\ in_climb = FALSE
    /\ climb_start_idx = 0
    /\ climb_start_elevation = RInt(0)
    /\ smoothed_elevations = <<>>
    /\ climbs = <<>>
    /\ calls = 0
    /\ first_result = <<"none">>
    /\ category_args = <<>>
    /\ category_result = "none"
    /\ dropped = <<>>
    /\ route_summary = <<>>

\* parser.get_route_data()
GetRouteData ==
    /\ pc = "parsed"
    /\ route_summary' = get_route_data
    /\ pc' = "summarised"
    /\ UNCHANGED <<fields, i, in_climb, climb_start_idx, climb_start_elevation,
                   smoothed_elevations, climbs, calls, first_result, category_args,
                   category_result, dropped>>

NextSummary == GetRouteData

SpecSummary == InitSummary /\ [][NextSummary]_vars

----------------------------------------------------------------------------
(* Preconditions of the specification's data model *)

\* the two sequences are index-aligned
SameLength == Len(distances) = Len(elevations)

\* a Track: equal lengths, at least 2 points
ValidInput == SameLength /\ Len(distances) >= 2

NonDecreasing == \A k \in 1..(Len(distances) - 1) : distances[k] <= distances[k + 1]

PositiveThresholds == min_elevation_gain > 0 /\ min_distance > 0

IsDefaults ==
    /\ min_gradient = Defaults.min_gradient
    /\ min_elevation_gain = Defaults.min_elevation_gain
    /\ min_distance = Defaults.min_distance

IsRoute(r) == distances = r.distances /\ elevations = r.elevations

----------------------------------------------------------------------------
(* Claims *)

\* C1: on a valid input (equal lengths >= 2, non-decreasing distances, positive
\* min_elevation_gain and min_distance) every climb in the list has
\* end_idx > start_idx, elevation_gain >= min_elevation_gain and
\* distance >= min_distance.
C1_EmittedClimbsQualify ==
    (ValidInput /\ NonDecreasing /\ PositiveThresholds) =>
        \A k \in 1..Len(climbs) :
            /\ climbs[k].end_idx > climbs[k].start_idx
            /\ climbs[k].elevation_gain.n >= min_elevation_gain * climbs[k].elevation_gain.d
            /\ climbs[k].distance >= min_distance

\* a valid run has returned a climb
C1_Witness ==
    /\ pc = "done"
    /\ ValidInput /\ NonDecreasing /\ PositiveThresholds
    /\ Len(climbs) >= 1

\* C2: the climbs of the list are in non-decreasing order of end_idx and do not
\* overlap: each climb starts after the end of the one before it.
C2_OrderedDisjoint ==
    \A k \in 1..(Len(climbs) - 1) :
        /\ climbs[k].end_idx <= climbs[k + 1].end_idx
        /\ climbs[k + 1].start_idx > climbs[k].end_idx

\* a run with positive thresholds has returned two climbs
C2_Witness ==
    /\ pc = "done"
    /\ PositiveThresholds
    /\ Len(climbs) >= 2

\* C3: an input that is no Track (fewer than 2 points, or sequences of different
\* lengths) is rejected before any scan step: the call never runs a loop
\* iteration and never returns a list.
C3_InvalidInputRejected ==
    ~ValidInput => (pc # "done" /\ i <= 1)

\* C4: the classifier returns exactly one of the six labels, the first matching
\* row of the table, with score = elevation_gain * avg_gradient; gain 1300 at
\* gradient 1 is HC.  (The arguments of CategorizeCall are whole numbers.)
C4_ClassifierTable ==
    (pc = "cat" /\ category_args # <<>>) =>
        LET gain == category_args[1].n
            score == category_args[1].n * category_args[2].n
            rowHC == score > 8000 \/ gain > 1200
            row1 == score > 5000 \/ gain > 800
            row2 == score > 3000 \/ gain > 500
            row3 == score > 1500 \/ gain > 300
            row4 == gain >= min_elevation_gain
        IN  /\ category_result \in {"HC", "1", "2", "3", "4", "Uncategorized"}
            /\ (category_result = "HC") <=> rowHC
            /\ (category_result = "1") <=> (~rowHC /\ row1)
            /\ (category_result = "2") <=> (~rowHC /\ ~row1 /\ row2)
            /\ (category_result = "3") <=> (~rowHC /\ ~row1 /\ ~row2 /\ row3)
            /\ (category_result = "4") <=> (~rowHC /\ ~row1 /\ ~row2 /\ ~row3 /\ row4)
            /\ (category_result = "Uncategorized")
                  <=> (~rowHC /\ ~row1 /\ ~row2 /\ ~row3 /\ ~row4)
            /\ (category_args = <<RInt(1300), RInt(1)>> => category_result = "HC")

\* the classifier was called with gain 1300, gradient 1 and answered HC
C4_Witness ==
    /\ pc = "cat"
    /\ category_args = <<RInt(1300), RInt(1)>>
    /\ category_result = "HC"

\* C5: a later call of detect_climbs on the same instance returns the list the
\* first call returned: no call leaves state that changes a later one.
C5_SameResultEveryCall ==
    (pc = "done" /\ first_result[1] = "returned") => climbs = first_result[2]

\* the second call on an instance has returned, with a climb in the list
C5_Witness ==
    /\ pc = "done"
    /\ calls = 2
    /\ first_result[1] = "returned"
    /\ Len(climbs) >= 1

IsFlat == \A k \in 1..Len(elevations) : elevations[k] = elevations[1]

PositiveSteps == \A k \in 1..(Len(distances) - 1) : distances[k] < distances[k + 1]

\* C6: a route of constant elevation, of any length N >= 2 with positive
\* distance steps, yields no climb (here under the default thresholds), also
\* when the smoothing is active.
C6_FlatRouteNoClimbs ==
    (pc = "done" /\ ValidInput /\ IsFlat /\ PositiveSteps /\ IsDefaults) => climbs = <<>>

\* C7 as stated: Scenario A yields exactly one climb, from index 0 to index 3,
\* gaining 120 m, of category 3 or higher.
C7_ScenarioA_AsStated ==
    (pc = "done" /\ IsRoute(ScenarioA) /\ IsDefaults) =>
        /\ Len(climbs) = 1
        /\ climbs[1].start_idx = 0
        /\ climbs[1].end_idx = 3
        /\ climbs[1].elevation_gain = RInt(120)
        /\ climbs[1].category \in {"3", "2", "1", "HC"}

\* C7 amended: Scenario A yields exactly one climb, from index 2 to index 3
\* (the 3 % first step does not exceed min_gradient, the 4 % second step starts
\* the climb at its later sample), gaining 50 m over 1 km at 5 %, category 4.
C7_ScenarioA ==
    (pc = "done" /\ IsRoute(ScenarioA) /\ IsDefaults) =>
        /\ Len(climbs) = 1
        /\ climbs[1].start_idx = 2
        /\ climbs[1].end_idx = 3
        /\ climbs[1].elevation_gain = RInt(50)
        /\ climbs[1].distance = 1000
        /\ climbs[1].avg_gradient = RInt(5)
        /\ climbs[1].category = "4"

\* detect_climbs has returned on Scenario A under the default thresholds
C7_Witness ==
    /\ pc = "done"
    /\ IsRoute(ScenarioA)
    /\ IsDefaults
    /\ Len(climbs) = 1

\* the difficulty score of a climb record, elevation_gain * avg_gradient
ScoreOf(c) == RMul(c.elevation_gain, c.avg_gradient)

\* C8 as stated: a constant 5 % climb of 2 km gaining 100 m yields exactly one
\* climb with avg_gradient 5.0, difficulty score 500 and category 4.
C8_ScenarioB_AsStated ==
    \A k \in ScenarioBSegments :
        (pc = "done" /\ IsRoute(ScenarioB(k)) /\ IsDefaults) =>
            /\ Len(climbs) = 1
            /\ climbs[1].avg_gradient = RInt(5)
            /\ ScoreOf(climbs[1]) = RInt(500)
            /\ climbs[1].category = "4"

\* C8 amended: sampled at k+1 equally spaced points, the route yields no climb
\* for k = 1 and for k >= 2 exactly one climb, from index 1 to index k, with
\* avg_gradient 5.0 and category 4; the first step is not part of the climb, so
\* the gain is 100 (k-1)/k and the difficulty score 500 (k-1)/k, below 500.
C8_ScenarioB ==
    \A k \in ScenarioBSegments :
        (pc = "done" /\ IsRoute(ScenarioB(k)) /\ IsDefaults) =>
            IF k = 1
            THEN climbs = <<>>
            ELSE /\ Len(climbs) = 1
                 /\ climbs[1].start_idx = 1
                 /\ climbs[1].end_idx = k
                 /\ climbs[1].avg_gradient = RInt(5)
                 /\ climbs[1].category = "4"
                 /\ climbs[1].elevation_gain = Rat(100 * (k - 1), k)
                 /\ ScoreOf(climbs[1]) = Rat(500 * (k - 1), k)
                 /\ RLt(ScoreOf(climbs[1]), RInt(500))

\* detect_climbs has returned one climb on a Scenario B route of 3 points or more
C8_Witness ==
    /\ pc = "done"
    /\ IsDefaults
    /\ \E k \in ScenarioBSegments : k >= 2 /\ IsRoute(ScenarioB(k))
    /\ Len(climbs) = 1

\* the closing evaluation of C9: the open climb with the last sample as its end
C9_Gain == RSub(At(smoothed_elevations, Len(distances) - 1), climb_start_elevation)

C9_Distance == At(distances, Len(distances) - 1) - At(distances, climb_start_idx)

C9_Emits ==
    /\ C9_Gain.n >= min_elevation_gain * C9_Gain.d
    /\ C9_Distance >= min_distance

\* C9: when the loop ends in the climbing state (sequences of equal length N),
\* the open climb is evaluated with end_idx = N-1 and closing elevation
\* smoothed[N-1]; it is appended as the last climb if and only if its gain is
\* >= min_elevation_gain and its distance >= min_distance.
C9_RouteEndsOnClimb ==
    [][(pc = "scan" /\ pc' = "done" /\ in_climb /\ SameLength) =>
          IF C9_Emits
          THEN /\ Len(climbs') = Len(climbs) + 1
               /\ SubSeq(climbs', 1, Len(climbs)) = climbs
               /\ Last(climbs').start_idx = climb_start_idx
               /\ Last(climbs').end_idx = Len(distances) - 1
               /\ Last(climbs').elevation_gain = C9_Gain
               /\ Last(climbs').distance = C9_Distance
          ELSE climbs' = climbs]_vars

\* a route ended on a climb, which was emitted with the last index as its end
C9_Witness ==
    /\ pc = "done"
    /\ in_climb
    /\ SameLength
    /\ PositiveThresholds
    /\ Len(climbs) >= 1
    /\ Last(climbs).end_idx = Len(distances) - 1

\* C10: every climb record holds the raw distances and elevations at start_idx
\* and end_idx, elevation_gain = smoothed[end_idx] - smoothed[start_idx],
\* distance = end_distance - start_distance, and avg_gradient =
\* elevation_gain / (distance * 1000) * 100 if distance > 0, else 0
\* (sequences of equal length).
C10_RecordFields ==
    SameLength =>
        \A k \in 1..Len(climbs) :
            LET c == climbs[k]
                sm == Smooth(elevations)
            IN  /\ c.start_distance = At(distances, c.start_idx)
                /\ c.end_distance = At(distances, c.end_idx)
                /\ c.start_elevation = At(elevations, c.start_idx)
                /\ c.end_elevation = At(elevations, c.end_idx)
                /\ c.elevation_gain = RSub(At(sm, c.end_idx), At(sm, c.start_idx))
                /\ c.distance = c.end_distance - c.start_distance
                /\ IF c.distance > 0
                   THEN c.avg_gradient.n * c.elevation_gain.d * c.distance
                            = c.elevation_gain.n * 100 * c.avg_gradient.d
                   ELSE c.avg_gradient = RInt(0)

\* a climb was emitted on a smoothed route, where the raw elevation at its
\* start differs from the smoothed one and its gradient is not zero
C10_Witness ==
    /\ pc = "done"
    /\ SameLength
    /\ WindowSize(elevations) > 1
    /\ Len(climbs) >= 1
    /\ RInt(climbs[1].start_elevation) # At(smoothed_elevations, climbs[1].start_idx)
    /\ climbs[1].distance > 0
    /\ climbs[1].avg_gradient # RInt(0)

\* the sum over the pairs (k-1, k), k = 1 .. hi, of max(0, elev[k] - elev[k-1])
RECURSIVE C11_PositiveDeltas(_, _)
C11_PositiveDeltas(elev, hi) ==
    IF hi < 1 THEN 0
    ELSE Max(0, At(elev, hi) - At(elev, hi - 1)) + C11_PositiveDeltas(elev, hi - 1)

\* C11: the summary's elevation_gain is the sum over consecutive raw samples of
\* max(0, elevation[i] - elevation[i-1]), total_distance is the last cumulative
\* distance, max_elevation / min_elevation are the extremes of the raw
\* elevations, and for an empty track all four are 0.
C11_RouteSummary ==
    pc = "summarised" =>
        LET n == Len(elevations)
        IN  /\ route_summary.elevation_gain = C11_PositiveDeltas(elevations, n - 1)
            /\ IF n = 0
               THEN /\ route_summary.total_distance = 0
                    /\ route_summary.elevation_gain = 0
                    /\ route_summary.max_elevation = 0
                    /\ route_summary.min_elevation = 0
               ELSE /\ route_summary.total_distance = distances[n]
                    /\ \E k \in 1..n : route_summary.max_elevation = elevations[k]
                    /\ \A k \in 1..n : route_summary.max_elevation >= elevations[k]
                    /\ \E k \in 1..n : route_summary.min_elevation = elevations[k]
                    /\ \A k \in 1..n : route_summary.min_elevation <= elevations[k]

\* the summary of a track that goes up and down: the gain is more than the net
\* rise, and the track ends below its highest point
C11_Witness ==
    /\ pc = "summarised"
    /\ Len(elevations) >= 3
    /\ route_summary.elevation_gain > Last(elevations) - elevations[1]
    /\ route_summary.elevation_gain > 0
    /\ route_summary.max_elevation > Last(elevations)
    /\ route_summary.total_distance > 0

\* the indices of the centered window of size w around index k that lie in a
\* sequence of n samples
C12_WindowLo(w, k) == Max(0, k - (w \div 2))

C12_WindowHi(w, k, n) == Min(n - 1, k + ((w - 1) \div 2))

\* C12: the smoothed sequence has the length of the raw one and is aligned with
\* it; with w = min(5, N \div 10) > 1 each smoothed value is the simple moving
\* average (the mean) of the raw samples in the centered window of size w
\* around its index; with w <= 1 (N < 20) the smoothed sequence is the raw one.
C12_SmoothedIsMovingAverage ==
    pc \in {"scan", "done"} =>
        LET n == Len(elevations)
            w == Min(5, n \div 10)
        IN  /\ Len(smoothed_elevations) = n
            /\ \A k \in 0..(n - 1) :
                  IF w <= 1
                  THEN At(smoothed_elevations, k) = RInt(At(elevations, k))
                  ELSE LET lo == C12_WindowLo(w, k)
                           hi == C12_WindowHi(w, k, n)
                       IN  At(smoothed_elevations, k).n * (hi - lo + 1)
                               = SumRange(elevations, lo, hi) * At(smoothed_elevations, k).d

----------------------------------------------------------------------------
(* The step the loop is about to run, when pc = "scan" and i indexes both *)
(* sequences                                                              *)

StepRuns == pc = "scan" /\ pc' = "scan"

StepDistanceDiff == At(distances, i) - At(distances, i - 1)

StepElevationDiff == RSub(At(smoothed_elevations, i), At(smoothed_elevations, i - 1))

\* the step's gradient is strictly above min_gradient (StepDistanceDiff > 0)
StepIsSteep ==
    StepElevationDiff.n * 100 > min_gradient * StepElevationDiff.d * StepDistanceDiff

\* the step's gradient is strictly negative (StepDistanceDiff > 0)
StepDescends == StepElevationDiff.n < 0

\* C13: the scanner enters the climbing state at step i exactly when it is not
\* climbing, distance_diff > 0 and the gradient is strictly above min_gradient;
\* it then records start_idx = i and start elevation smoothed[i]; while it is
\* climbing no step changes the recorded start.
C13_EnterClimb ==
    [][StepRuns =>
          /\ ~in_climb =>
                IF StepDistanceDiff > 0 /\ StepIsSteep
                THEN /\ in_climb'
                     /\ climb_start_idx' = i
                     /\ climb_start_elevation' = At(smoothed_elevations, i)
                ELSE ~in_climb'
          /\ in_climb =>
                /\ climb_start_idx' = climb_start_idx
                /\ climb_start_elevation' = climb_start_elevation]_vars

\* a climb has just been entered: its start is the later sample of the step
\* that was run, whose rise is not part of the climb
C13_Witness ==
    /\ pc = "scan"
    /\ in_climb
    /\ i >= 2
    /\ climb_start_idx = i - 1
    /\ climb_start_elevation = At(smoothed_elevations, i - 1)
    /\ RGt(At(smoothed_elevations, i - 1), At(smoothed_elevations, i - 2))

\* C14: while climbing, a step closes the climb exactly when its gradient is
\* strictly negative, and the climb closed has end_idx = i-1; every other step
\* (flat, or rising at any gradient) leaves the climbing flag, the start and
\* the list of climbs as they are.
C14_LeaveClimb ==
    [][(StepRuns /\ in_climb) =>
          IF StepDistanceDiff > 0 /\ StepDescends
          THEN /\ ~in_climb'
               /\ \/ climbs' = climbs
                  \/ /\ Len(climbs') = Len(climbs) + 1
                     /\ SubSeq(climbs', 1, Len(climbs)) = climbs
                     /\ Last(climbs').start_idx = climb_start_idx
                     /\ Last(climbs').end_idx = i - 1
          ELSE /\ in_climb'
               /\ climb_start_idx' = climb_start_idx
               /\ climb_start_elevation' = climb_start_elevation
               /\ climbs' = climbs]_vars

\* a climb was returned that has a flat step inside it
C14_Witness ==
    /\ pc = "done"
    /\ SameLength
    /\ PositiveThresholds
    /\ \E k \in 1..Len(climbs) :
          \E j \in (climbs[k].start_idx + 1)..climbs[k].end_idx :
              /\ At(distances, j) > At(distances, j - 1)
              /\ At(smoothed_elevations, j) = At(smoothed_elevations, j - 1)

\* C15: a step with distance_diff <= 0 changes neither the climbing flag, nor
\* the recorded start index and start elevation, nor the list of climbs.
C15_SkippedStep ==
    [][(StepRuns /\ StepDistanceDiff <= 0) =>
          UNCHANGED <<in_climb, climb_start_idx, climb_start_elevation, climbs>>]_vars

\* a descending step with distance_diff <= 0 was run during a climb, which is
\* still open
C15_Witness ==
    /\ pc = "scan"
    /\ i >= 3
    /\ in_climb
    /\ climb_start_idx < i - 1
    /\ At(distances, i - 1) <= At(distances, i - 2)
    /\ RLt(At(smoothed_elevations, i - 1), At(smoothed_elevations, i - 2))

\* the climb that step i closes passes the two tests
C16_StepQualifies ==
    LET gain == RSub(At(smoothed_elevations, i - 1), climb_start_elevation)
    IN  /\ gain.n >= min_elevation_gain * gain.d
        /\ At(distances, i - 1) - At(distances, climb_start_idx) >= min_distance

\* C16: a climb closed by a negative step that fails the gain or the distance
\* test is dropped: the call goes on, the list is unchanged, the climbing state
\* is left and the loop continues from the same state as after an emitted
\* climb; no climb of the list reaches into a dropped span or its closing step.
C16_DroppedClimb ==
    /\ [](\A d \in 1..Len(dropped) : \A k \in 1..Len(climbs) :
             \/ climbs[k].end_idx < dropped[d].start_idx
             \/ climbs[k].start_idx > dropped[d].close_step)
    /\ [][(pc = "scan" /\ i < Len(distances) /\ i < Len(smoothed_elevations)
              /\ in_climb /\ StepDistanceDiff > 0 /\ StepDescends) =>
             /\ pc' = "scan"
             /\ i' = i + 1
             /\ ~in_climb'
             /\ climb_start_idx' = climb_start_idx
             /\ climb_start_elevation' = climb_start_elevation
             /\ IF C16_StepQualifies
                THEN Len(climbs') = Len(climbs) + 1
                ELSE climbs' = climbs]_vars

\* a climb was dropped and a later climb of the same route was returned
C16_Witness ==
    /\ pc = "done"
    /\ PositiveThresholds
    /\ \E d \in 1..Len(dropped) : \E k \in 1..Len(climbs) :
          climbs[k].start_idx > dropped[d].close_step

\* C17: no climb of the list has the category "Uncategorized": each is HC, 1,
\* 2, 3 or 4.
C17_NoUncategorized ==
    \A k \in 1..Len(climbs) : climbs[k].category \in {"HC", "1", "2", "3", "4"}

\* a climb was returned whose gain is exactly min_elevation_gain, the lowest
\* gain of category 4
C17_Witness ==
    /\ pc = "done"
    /\ \E k \in 1..Len(climbs) :
          /\ climbs[k].elevation_gain = RInt(min_elevation_gain)
          /\ climbs[k].category = "4"

====
